---- MODULE Spec2Model ----
(***************************************************************************)
(* A model of lib/routing.py: the UrlRule pattern compiler (matcher and    *)
(* reverse-generation template) and the Plugin router (route table,        *)
(* route_for, url_for, dispatch).                                          *)
(*                                                                         *)
(* A Python string is a sequence of one-character strings.  A dict is a    *)
(* sequence of <<key, value>> pairs with distinct keys, in insertion       *)
(* order (the iteration order of a Python 3.7+ dict).  None is the value   *)
(* None; a raised exception is a value such as RoutingError.  Plugin.run   *)
(* and the argv parsing of the constructor belong to the host boundary and *)
(* are left out: redirect is the entry point of dispatch.                  *)
(***************************************************************************)
EXTENDS Integers, Sequences, FiniteSets, TLC

VARIABLES
    rules,      \* Plugin._rules: view function -> list of UrlRule
    registered, \* history: the <<function, rule>> pairs add_route stored, in call order
    op,         \* the last call made on the plugin, with its arguments
    ret,        \* what that call returned or raised
    calls,      \* the view functions that call invoked, with their kwargs
    pat,        \* the pattern string given to UrlRule(...)
    rule,       \* the UrlRule built from pat
    rop,        \* the last call made on the rule, with its arguments
    rret        \* what that call returned

vars == <<rules, registered, op, ret, calls, pat, rule, rop, rret>>
plugin_vars == <<rules, registered, op, ret, calls>>
rule_vars == <<pat, rule, rop, rret>>

\* Python values carry their type in the field t
None == [t |-> "None"]
RoutingError == [t |-> "RoutingError"]
re_error == [t |-> "re.error"]
Str(s) == [t |-> "str", v |-> s]
Dict(d) == [t |-> "dict", v |-> d]
Func(f) == [t |-> "function", v |-> f]

-----------------------------------------------------------------------------
(* Characters and strings                                                  *)

\* the characters 0x5C and 0x60, which have no literal of their own here
Backslash == "backslash"
Backquote == "backquote"

\* The character class [A-z] of kw_pattern: the code points 0x41..0x7A,
\* which are the letters and the six characters between 'Z' and 'a'.
AZ ==
    {"A","B","C","D","E","F","G","H","I","J","K","L","M","N","O","P","Q","R",
     "S","T","U","V","W","X","Y","Z","[",Backslash,"]","^","_",Backquote,
     "a","b","c","d","e","f","g","h","i","j","k","l","m","n","o","p","q","r",
     "s","t","u","v","w","x","y","z"}

Digits == {"0","1","2","3","4","5","6","7","8","9"}

\* s.startswith(prefix)
startswith(s, prefix) ==
    /\ Len(prefix) <= Len(s)
    /\ SubSeq(s, 1, Len(prefix)) = prefix

\* s.rstrip('/'): every trailing '/' is removed
RECURSIVE rstrip(_)
rstrip(s) ==
    IF Len(s) > 0 /\ s[Len(s)] = "/" THEN rstrip(SubSeq(s, 1, Len(s) - 1)) ELSE s

\* the concatenation of a sequence of strings
RECURSIVE concat(_)
concat(ss) == IF ss = <<>> THEN <<>> ELSE Head(ss) \o concat(Tail(ss))

-----------------------------------------------------------------------------
(* UrlRule.__init__: the three products of compiling a pattern             *)
(*                                                                         *)
(* The compiled texts are kept as sequences of items: lit is one literal   *)
(* character, slot is the text {name} of the template, seg is the named    *)
(* group with the lazy body [^/]+? and path is the named group with the    *)
(* greedy body .* of the regex.  Pattern text of the model holds none of   *)
(* the characters { } % nor a regex metacharacter, so that a lit item is a *)
(* literal of the regex and of the template.                               *)

Lit(c) == [k |-> "lit", v |-> <<c>>]
Slot(n) == [k |-> "slot", v |-> n]
Seg(n) == [k |-> "seg", v |-> n]
PathGroup(n) == [k |-> "path", v |-> n]

Lift(s) == [i \in 1..Len(s) |-> Lit(s[i])]

IsLit(items, i, c) == i <= Len(items) /\ items[i].k = "lit" /\ items[i].v = <<c>>

\* the length of the longest run of [A-z] characters of items from i on
RECURSIVE NameRun(_, _)
NameRun(items, i) ==
    IF i <= Len(items) /\ items[i].k = "lit" /\ items[i].v[1] \in AZ
    THEN 1 + NameRun(items, i + 1)
    ELSE 0

Text(items, i, j) == concat([m \in 1..(j - i + 1) |-> items[i + m - 1].v])

\* the literal text prefix stands at items[i..]
LitAt(items, i, prefix) ==
    /\ i + Len(prefix) - 1 <= Len(items)
    /\ \A m \in 1..Len(prefix) : IsLit(items, i + m - 1, prefix[m])

\* A match of  prefix([A-z]+)>  at i: the index of its closing '>', or 0.
\* [A-z]+ is greedy, and '>' is not in [A-z], so the run is the longest one.
TypedEnd(items, i, prefix) ==
    IF LitAt(items, i, prefix)
    THEN LET n == NameRun(items, i + Len(prefix))
             e == i + Len(prefix) + n
         IN  IF n >= 1 /\ IsLit(items, e, ">") THEN e ELSE 0
    ELSE 0

TypedName(items, i, prefix) ==
    Text(items, i + Len(prefix), TypedEnd(items, i, prefix) - 1)

\* the index of the first ':' of items at or after i, or 0
RECURSIVE FirstColon(_, _)
FirstColon(items, i) ==
    IF i > Len(items) THEN 0
    ELSE IF IsLit(items, i, ":") THEN i
    ELSE FirstColon(items, i + 1)

\* A match of kw_pattern  <(?:[^:]+:)?([A-z]+)>  at i: <<end, name>>, end = 0
\* when there is none.  The optional group is tried first: [^:]+ runs to the
\* first ':' (it must take at least one character), then the name and '>'
\* must follow; when that fails the group is skipped.
kw_pattern(items, i) ==
    IF ~IsLit(items, i, "<") THEN <<0, <<>>>>
    ELSE LET c == FirstColon(items, i + 1)
             n == IF c >= i + 2 THEN NameRun(items, c + 1) ELSE 0
         IN  IF n >= 1 /\ IsLit(items, c + 1 + n, ">")
             THEN <<c + 1 + n, Text(items, c + 1, c + n)>>
             ELSE LET e == TypedEnd(items, i, <<"<">>)
                  IN  IF e > 0 THEN <<e, TypedName(items, i, <<"<">>)>>
                      ELSE <<0, <<>>>>

\* re.sub(kw_pattern, '{\1}', pattern), from position i on
RECURSIVE sub_kw(_, _)
sub_kw(items, i) ==
    IF i > Len(items) THEN <<>>
    ELSE LET m == kw_pattern(items, i)
         IN  IF m[1] > 0 THEN <<Slot(m[2])>> \o sub_kw(items, m[1] + 1)
             ELSE <<items[i]>> \o sub_kw(items, i + 1)

\* re.findall(kw_pattern, pattern), from position i on
RECURSIVE findall_kw(_, _)
findall_kw(items, i) ==
    IF i > Len(items) THEN <<>>
    ELSE LET m == kw_pattern(items, i)
         IN  IF m[1] > 0 THEN <<m[2]>> \o findall_kw(items, m[1] + 1)
             ELSE findall_kw(items, i + 1)

\* re.sub('<([A-z]+)>', '<string:\1>', pattern), from position i on
RECURSIVE sub_plain(_, _)
sub_plain(items, i) ==
    IF i > Len(items) THEN <<>>
    ELSE LET e == TypedEnd(items, i, <<"<">>)
         IN  IF e > 0
             THEN Lift(<<"<","s","t","r","i","n","g",":">>
                       \o TypedName(items, i, <<"<">>) \o <<">">>)
                  \o sub_plain(items, e + 1)
             ELSE <<items[i]>> \o sub_plain(items, i + 1)

\* re.sub('<string:([A-z]+)>', '(?P<\1>[^/]+?)', p), from position i on
RECURSIVE sub_string(_, _)
sub_string(items, i) ==
    IF i > Len(items) THEN <<>>
    ELSE LET pre == <<"<","s","t","r","i","n","g",":">>
             e == TypedEnd(items, i, pre)
         IN  IF e > 0
             THEN <<Seg(TypedName(items, i, pre))>> \o sub_string(items, e + 1)
             ELSE <<items[i]>> \o sub_string(items, i + 1)

\* re.sub of '<path:([A-z]+)>' by the named group with body .* , from position i on
RECURSIVE sub_path(_, _)
sub_path(items, i) ==
    IF i > Len(items) THEN <<>>
    ELSE LET pre == <<"<","p","a","t","h",":">>
             e == TypedEnd(items, i, pre)
         IN  IF e > 0
             THEN <<PathGroup(TypedName(items, i, pre))>> \o sub_path(items, e + 1)
             ELSE <<items[i]>> \o sub_path(items, i + 1)

\* the names of the named groups of a regex, left to right
GroupNames(regex) ==
    LET g == SelectSeq(regex, LAMBDA t : t.k \in {"seg", "path"})
    IN  [i \in 1..Len(g) |-> g[i].v]

\* the names of the slots of a template, left to right
SlotNames(tmpl) ==
    LET g == SelectSeq(tmpl, LAMBDA t : t.k = "slot")
    IN  [i \in 1..Len(g) |-> g[i].v]

Range(s) == {s[i] : i \in 1..Len(s)}

NoDuplicates(s) == \A i, j \in 1..Len(s) : s[i] = s[j] => i = j

\* re.compile accepts the regex: a group name is an identifier and no two
\* groups have the same name
Compiles(regex) ==
    /\ NoDuplicates(GroupNames(regex))
    /\ \A n \in Range(GroupNames(regex)) :
          \A i \in 1..Len(n) : n[i] \notin {"[", Backslash, "]", "^", Backquote}

\* UrlRule(pattern): the rule, or re_error when re.compile raises
UrlRule(pattern) ==
    LET stripped == Lift(rstrip(pattern))
        regex == sub_path(sub_string(sub_plain(stripped, 1), 1), 1)
    IN  IF Compiles(regex)
        THEN [t        |-> "UrlRule",
              pattern  |-> sub_kw(stripped, 1),
              keywords |-> findall_kw(stripped, 1),
              regex    |-> regex]
        ELSE re_error

-----------------------------------------------------------------------------
(* UrlRule.match: the anchored regex, searched as a backtracking engine    *)
(* does.  The path of the model holds no newline, so '$' is the end of     *)
(* the path and '.' is any character.                                      *)

NoMatch == [ok |-> FALSE, groups |-> <<>>]

RECURSIVE match_at(_, _, _, _)
RECURSIVE seg_try(_, _, _, _, _)
RECURSIVE path_try(_, _, _, _, _)

\* the group [^/]+? at regex[i], taking k characters of s from j: the
\* shortest k >= 1 that lets the rest of the regex match
seg_try(regex, i, s, j, k) ==
    IF j + k - 1 > Len(s) \/ s[j + k - 1] = "/" THEN NoMatch
    ELSE LET r == match_at(regex, i + 1, s, j + k)
         IN  IF r.ok
             THEN [ok |-> TRUE,
                   groups |-> <<<<regex[i].v, SubSeq(s, j, j + k - 1)>>>> \o r.groups]
             ELSE seg_try(regex, i, s, j, k + 1)

\* the group .* at regex[i], taking k characters of s from j: the longest
\* k >= 0 that lets the rest of the regex match
path_try(regex, i, s, j, k) ==
    IF k < 0 THEN NoMatch
    ELSE LET r == match_at(regex, i + 1, s, j + k)
         IN  IF r.ok
             THEN [ok |-> TRUE,
                   groups |-> <<<<regex[i].v, SubSeq(s, j, j + k - 1)>>>> \o r.groups]
             ELSE path_try(regex, i, s, j, k - 1)

\* the regex without its closing '$': what is left of s is not looked at
match_at_unanchored(regex, i, s, j) ==
    IF i > Len(regex) THEN [ok |-> TRUE, groups |-> <<>>]
    ELSE IF regex[i].k = "seg" THEN seg_try(regex, i, s, j, 1)
    ELSE IF regex[i].k = "path" THEN path_try(regex, i, s, j, Len(s) - j + 1)
    ELSE IF j <= Len(s) /\ <<s[j]>> = regex[i].v
         THEN match_at(regex, i + 1, s, j + 1)
         ELSE NoMatch

\* regex[i..] matches s[j..] up to the end of s
match_at(regex, i, s, j) ==
    IF i > Len(regex)
    THEN IF j = Len(s) + 1 THEN [ok |-> TRUE, groups |-> <<>>] ELSE NoMatch
    ELSE IF regex[i].k = "seg" THEN seg_try(regex, i, s, j, 1)
    ELSE IF regex[i].k = "path" THEN path_try(regex, i, s, j, Len(s) - j + 1)
    ELSE IF j <= Len(s) /\ <<s[j]>> = regex[i].v
         THEN match_at(regex, i + 1, s, j + 1)
         ELSE NoMatch

\* rule.match(path): match.groupdict() if match else None
match(r, p) ==
    LET m == match_at(r.regex, 1, p, 1)
    IN  IF m.ok THEN Dict(m.groups) ELSE None

-----------------------------------------------------------------------------
(* UrlRule.make_path                                                       *)

Keys(d) == {d[i][1] : i \in 1..Len(d)}

\* d[key], for a key of d
Get(d, key) == d[CHOOSE i \in 1..Len(d) : d[i][1] = key][2]

\* urllib's quote_plus of one character: letters, digits and _ . - ~ are
\* kept, the space becomes '+', any other character becomes %XX
quote_plus_char(c) ==
    IF c \in AZ \ {"[", Backslash, "]", "^", Backquote} \/ c \in Digits
       \/ c \in {".", "-", "~"}
    THEN <<c>>
    ELSE CASE c = " " -> <<"+">>
           [] c = "/" -> <<"%","2","F">>
           [] c = ":" -> <<"%","3","A">>
           [] c = "<" -> <<"%","3","C">>
           [] c = "=" -> <<"%","3","D">>
           [] c = ">" -> <<"%","3","E">>
           [] c = "?" -> <<"%","3","F">>
           [] c = "&" -> <<"%","2","6">>
           [] c = "%" -> <<"%","2","5">>
           [] c = "+" -> <<"%","2","B">>

quote_plus(s) == concat([i \in 1..Len(s) |-> quote_plus_char(s[i])])

\* urlencode(d): key=value pairs in the order of d, joined by '&'
RECURSIVE urlencode(_)
urlencode(d) ==
    IF d = <<>> THEN <<>>
    ELSE quote_plus(d[1][1]) \o <<"=">> \o quote_plus(d[1][2])
         \o (IF Len(d) > 1 THEN <<"&">> \o urlencode(Tail(d)) ELSE <<>>)

\* re.sub(r'{[A-z]+}', r'%s', self._pattern) % args, for as many args as
\* there are slots: the n-th slot takes the n-th argument
RECURSIVE format_args(_, _)
format_args(tmpl, args) ==
    IF tmpl = <<>> THEN <<>>
    ELSE IF Head(tmpl).k = "slot"
         THEN Head(args) \o format_args(Tail(tmpl), Tail(args))
         ELSE Head(tmpl).v \o format_args(Tail(tmpl), args)

\* self._pattern.format(**url_kwargs), for url_kwargs that hold every slot
format_kwargs(tmpl, url_kwargs) ==
    concat([i \in 1..Len(tmpl) |->
              IF tmpl[i].k = "slot" THEN Get(url_kwargs, tmpl[i].v) ELSE tmpl[i].v])

\* make_path appending '?' and the query whether or not a keyword is left
make_path_always_query(r, args, kwargs) ==
    IF args # <<>> /\ kwargs # <<>> THEN None
    ELSE IF args # <<>>
    THEN IF Len(args) = Len(SlotNames(r.pattern))
         THEN Str(format_args(r.pattern, args))
         ELSE None
    ELSE LET url_kwargs == SelectSeq(kwargs, LAMBDA kv : kv[1] \in Range(r.keywords))
             qs_kwargs == SelectSeq(kwargs, LAMBDA kv : kv[1] \notin Range(r.keywords))
         IN  IF Range(SlotNames(r.pattern)) \subseteq Keys(url_kwargs)
             THEN Str(format_kwargs(r.pattern, url_kwargs) \o <<"?">> \o urlencode(qs_kwargs))
             ELSE None

\* rule.make_path(*args, **kwargs): the path, or None
make_path(r, args, kwargs) ==
    IF args # <<>> /\ kwargs # <<>> THEN None
    ELSE IF args # <<>>
    THEN \* '%' raises TypeError unless there is one argument per slot
         IF Len(args) = Len(SlotNames(r.pattern))
         THEN Str(format_args(r.pattern, args))
         ELSE None
    ELSE LET url_kwargs == SelectSeq(kwargs, LAMBDA kv : kv[1] \in Range(r.keywords))
             qs_kwargs == SelectSeq(kwargs, LAMBDA kv : kv[1] \notin Range(r.keywords))
             query == IF qs_kwargs # <<>> THEN <<"?">> \o urlencode(qs_kwargs) ELSE <<>>
         IN  \* format raises KeyError when a slot has no keyword
             IF Range(SlotNames(r.pattern)) \subseteq Keys(url_kwargs)
             THEN Str(format_kwargs(r.pattern, url_kwargs) \o query)
             ELSE None

-----------------------------------------------------------------------------
(* Plugin                                                                  *)

\* self.base_url: 'plugin://{0}'.format(ADDON_ID) with ADDON_ID = 'plugin.foo.bar'
base_url == <<"p","l","u","g","i","n",":","/","/","p","l","u","g","i","n",".","f","o","o",".","b","a","r">>

HasKey(d, key) == \E i \in 1..Len(d) : d[i][1] = key

\* the index of the first rule of the list rs that matches p, or 0
RECURSIVE first_match(_, _, _)
first_match(rs, i, p) ==
    IF i > Len(rs) THEN 0
    ELSE IF match(rs[i], p) # None THEN i
    ELSE first_match(rs, i + 1, p)

\* the loops of route_for over self._rules.items(), from entry i on
RECURSIVE route_for_scan(_, _)
route_for_scan(i, p) ==
    IF i > Len(rules) THEN None
    ELSE IF first_match(rules[i][2], 1, p) > 0 THEN Func(rules[i][1])
    ELSE route_for_scan(i + 1, p)

\* route_for returning the last view function with a matching rule
RECURSIVE route_for_last_scan(_, _)
route_for_last_scan(i, p) ==
    IF i < 1 THEN None
    ELSE IF first_match(rules[i][2], 1, p) > 0 THEN Func(rules[i][1])
    ELSE route_for_last_scan(i - 1, p)

route_for_last(p) ==
    route_for_last_scan(Len(rules), IF startswith(p, base_url)
                                    THEN SubSeq(p, Len(base_url) + 1, Len(p))
                                    ELSE p)

\* plugin.route_for(path): the view function, or None
route_for(p) ==
    route_for_scan(1, IF startswith(p, base_url)
                      THEN SubSeq(p, Len(base_url) + 1, Len(p))
                      ELSE p)

\* plugin.url_for_path(path)
url_for_path(p) == base_url \o (IF startswith(p, <<"/">>) THEN p ELSE <<"/">> \o p)

\* the loop of url_for over self._rules[func], from rule i on
RECURSIVE url_for_scan(_, _, _, _)
url_for_scan(rs, i, args, kwargs) ==
    IF i > Len(rs) THEN RoutingError
    ELSE LET made == make_path(rs[i], args, kwargs)
         IN  IF made # None THEN Str(url_for_path(made.v))
             ELSE url_for_scan(rs, i + 1, args, kwargs)

\* url_for trying the rules of func from the last registered to the first
RECURSIVE url_for_last_scan(_, _, _, _)
url_for_last_scan(rs, i, args, kwargs) ==
    IF i < 1 THEN RoutingError
    ELSE LET made == make_path(rs[i], args, kwargs)
         IN  IF made # None THEN Str(url_for_path(made.v))
             ELSE url_for_last_scan(rs, i - 1, args, kwargs)

url_for_last(func, args, kwargs) ==
    IF HasKey(rules, func)
    THEN url_for_last_scan(Get(rules, func), Len(Get(rules, func)), args, kwargs)
    ELSE RoutingError

\* plugin.url_for(func, *args, **kwargs): the URL, or RoutingError raised
url_for(func, args, kwargs) ==
    IF HasKey(rules, func)
    THEN url_for_scan(Get(rules, func), 1, args, kwargs)
    ELSE RoutingError

\* add_route putting the new rule in front of the function's list
add_route_insert(func, pattern) ==
    LET r == UrlRule(pattern)
    IN  IF r.t # "UrlRule" THEN rules
        ELSE IF ~HasKey(rules, func) THEN Append(rules, <<func, <<r>>>>)
        ELSE [i \in 1..Len(rules) |->
                IF rules[i][1] = func
                THEN <<func, <<r>> \o rules[i][2]>>
                ELSE rules[i]]

\* add_route replacing the function's list by the new rule
add_route_replace(func, pattern) ==
    LET r == UrlRule(pattern)
    IN  IF r.t # "UrlRule" THEN rules
        ELSE IF ~HasKey(rules, func) THEN Append(rules, <<func, <<r>>>>)
        ELSE [i \in 1..Len(rules) |->
                IF rules[i][1] = func THEN <<func, <<r>>>> ELSE rules[i]]

\* plugin.add_route(func, pattern): the value of self._rules after the call
\* (unchanged when UrlRule(pattern) raises)
add_route(func, pattern) ==
    LET r == UrlRule(pattern)
    IN  IF r.t # "UrlRule" THEN rules
        ELSE IF ~HasKey(rules, func) THEN Append(rules, <<func, <<r>>>>)
        ELSE [i \in 1..Len(rules) |->
                IF rules[i][1] = func
                THEN <<func, Append(rules[i][2], r)>>
                ELSE rules[i]]

\* the loops of _dispatch over self._rules.items(), from entry i on: the
\* calls made of view functions and what _dispatch returns or raises
RECURSIVE dispatch_scan(_, _)
dispatch_scan(i, p) ==
    IF i > Len(rules) THEN [calls |-> <<>>, ret |-> RoutingError]
    ELSE LET j == first_match(rules[i][2], 1, p)
         IN  IF j > 0
             THEN [calls |-> <<[func |-> rules[i][1],
                                kwargs |-> match(rules[i][2][j], p).v]>>,
                   ret |-> None]
             ELSE dispatch_scan(i + 1, p)

\* _dispatch without its return: every matching rule's view function is
\* called and the loops run into the raise
dispatch_no_return(p) ==
    LET hits == SelectSeq(concat([i \in 1..Len(rules) |->
                                   [j \in 1..Len(rules[i][2]) |-> <<i, j>>]]),
                          LAMBDA ij : match(rules[ij[1]][2][ij[2]], p) # None)
    IN  [calls |-> [n \in 1..Len(hits) |->
                      [func |-> rules[hits[n][1]][1],
                       kwargs |-> match(rules[hits[n][1]][2][hits[n][2]], p).v]],
         ret |-> RoutingError]

\* plugin._dispatch(path)
_dispatch(p) == dispatch_scan(1, p)

-----------------------------------------------------------------------------
(* The router as a state machine: the host registers routes and calls      *)
(* route_for, url_for and redirect in any order.                           *)

\* the most routes the host registers
MaxRules == 3

\* the view functions of the host
Funcs == {"f", "g"}

\* the patterns the host registers:
\*   /   /<a>   /<a>/   /<path:b>   /<a>/<a>
RoutePatterns ==
    {<<"/">>,
     <<"/","<","a",">">>,
     <<"/","<","a",">","/">>,
     <<"/","<","p","a","t","h",":","b",">">>,
     <<"/","<","a",">","/","<","a",">">>}

\* the paths the host asks about:
\*   (empty)  /  /x  /v/w  and the base URL followed by /x
Paths ==
    {<<>>,
     <<"/">>,
     <<"/","x">>,
     <<"/","v","/","w">>,
     <<"p","l","u","g","i","n",":","/","/","p","l","u","g","i","n",".","f","o","o",".","b","a","r","/","x">>}

\* the arguments the host gives url_for, as <<args, kwargs>>:
\*   ()  (a=v)  (a=v, q=w)  (q=u/v)  ('v')  ('v', a=v)
UrlArguments ==
    {<<<<>>, <<>>>>,
     <<<<>>, <<<<<<"a">>, <<"v">>>>>>>>,
     <<<<>>, <<<<<<"a">>, <<"v">>>>, <<<<"q">>, <<"w">>>>>>>>,
     <<<<>>, <<<<<<"q">>, <<"u","/","v">>>>>>>>,
     <<<<<<"v">>>>, <<>>>>,
     <<<<<<"v">>>>, <<<<<<"a">>, <<"v">>>>>>>>}

Idle == [name |-> "init"]

Init ==
    /\ rules = <<>>
    /\ registered = <<>>
    /\ op = Idle
    /\ ret = None
    /\ calls = <<>>
    /\ pat = <<>>
    /\ rule = None
    /\ rop = Idle
    /\ rret = None

\* plugin.add_route(func, pattern)
AddRoute(func, pattern) ==
    /\ Len(registered) < MaxRules
    /\ rules' = add_route(func, pattern)
    /\ registered' = IF UrlRule(pattern).t = "UrlRule"
                     THEN Append(registered, <<func, UrlRule(pattern)>>)
                     ELSE registered
    /\ op' = [name |-> "add_route", func |-> func, pattern |-> pattern]
    /\ ret' = IF UrlRule(pattern).t = "UrlRule" THEN None ELSE re_error
    /\ calls' = <<>>
    /\ UNCHANGED rule_vars

\* the paths a call may be given: the host's, or the URL url_for just returned
PathInputs == Paths \cup (IF op.name = "url_for" /\ ret.t = "str" THEN {ret.v} ELSE {})

\* plugin.route_for(path)
RouteFor(p) ==
    /\ op' = [name |-> "route_for", path |-> p]
    /\ ret' = route_for(p)
    /\ calls' = <<>>
    /\ UNCHANGED <<rules, registered, rule_vars>>

\* plugin.url_for(func, *args, **kwargs)
UrlFor(func, args, kwargs) ==
    /\ op' = [name |-> "url_for", func |-> func, args |-> args, kwargs |-> kwargs]
    /\ ret' = url_for(func, args, kwargs)
    /\ calls' = <<>>
    /\ UNCHANGED <<rules, registered, rule_vars>>

\* plugin.redirect(path), which is self._dispatch(path); a view function
\* called returns without registering a route
Redirect(p) ==
    /\ op' = [name |-> "dispatch", path |-> p]
    /\ ret' = _dispatch(p).ret
    /\ calls' = _dispatch(p).calls
    /\ UNCHANGED <<rules, registered, rule_vars>>

Next ==
    \/ \E func \in Funcs, pattern \in RoutePatterns : AddRoute(func, pattern)
    \/ \E p \in PathInputs : RouteFor(p)
    \/ \E func \in Funcs, a \in UrlArguments : UrlFor(func, a[1], a[2])
    \/ \E p \in PathInputs : Redirect(p)

Spec == Init /\ [][Next]_vars

-----------------------------------------------------------------------------
(* Properties of the router                                                *)

\* the <<i, j>> of the registered rules that match p
Matching(p) ==
    {ij \in (1..Len(rules)) \X (1..MaxRules + 1) :
        /\ ij[2] <= Len(rules[ij[1]][2])
        /\ match(rules[ij[1]][2][ij[2]], p) # None}

\* the calls of add_route, by number, whose rule matches p
MatchingRegistered(p) ==
    {k \in 1..Len(registered) : match(registered[k][2], p) # None}

Min(S) == CHOOSE x \in S : \A y \in S : x <= y

\* the number of the first add_route call for the function of call k
FirstRegistration(k) ==
    Min({m \in 1..Len(registered) : registered[m][1] = registered[k][1]})

\* the matching call whose function was registered first and, among the
\* calls for that function, the earliest
FirstInHandlerOrder(p) ==
    CHOOSE k \in MatchingRegistered(p) :
        \A m \in MatchingRegistered(p) :
            \/ FirstRegistration(k) < FirstRegistration(m)
            \/ FirstRegistration(k) = FirstRegistration(m) /\ k <= m

CallOf(k, p) == [func |-> registered[k][1], kwargs |-> match(registered[k][2], p).v]

\* C1: a dispatch call invokes exactly one handler when some registered
\* pattern matches the path, and otherwise invokes none and raises a routing
\* error; it never invokes two handlers.
C1_OneHandlerOrError ==
    op.name = "dispatch" =>
        IF Matching(op.path) # {}
        THEN Len(calls) = 1 /\ ret = None
        ELSE calls = <<>> /\ ret = RoutingError

\* C1, its case: a dispatch of a path that rules of two handlers match
C1_Witness ==
    /\ op.name = "dispatch"
    /\ \E x, y \in Matching(op.path) : x[1] # y[1]
    /\ Len(calls) = 1

\* C2 as stated: dispatch invokes the handler of the earliest-registered
\* pattern that matches, whatever the interleaving of the registrations.
C2_EarliestRegisteredWins ==
    (op.name = "dispatch" /\ MatchingRegistered(op.path) # {}) =>
        calls = <<CallOf(Min(MatchingRegistered(op.path)), op.path)>>

\* C2 as amended: dispatch scans the handlers in the order of their first
\* registration and, within a handler, its patterns in registration order;
\* it invokes the handler of the first matching pattern of that scan with
\* that pattern's parameters.
C2_HandlerOrderThenRegistration ==
    (op.name = "dispatch" /\ MatchingRegistered(op.path) # {}) =>
        calls = <<CallOf(FirstInHandlerOrder(op.path), op.path)>>

\* C2, its case: a handler registered again after another handler, and a
\* path that only its later pattern and the other handler's pattern match
C2_Witness ==
    /\ op.name = "dispatch"
    /\ MatchingRegistered(op.path) # {}
    /\ FirstInHandlerOrder(op.path) # Min(MatchingRegistered(op.path))
    /\ Len(calls) = 1

DispatchAgreesWithRouteFor ==
    /\ ret = RoutingError <=> route_for(op.path) = None
    /\ \A h \in Funcs :
          (\E n \in 1..Len(calls) : calls[n].func = h) <=> route_for(op.path) = Func(h)

\* C3 as stated: dispatch invokes h exactly when route_for returns h, and
\* raises exactly when route_for returns None, for every path, the paths
\* that begin with the base URL included.
C3_DispatchLikeRouteFor ==
    op.name = "dispatch" => DispatchAgreesWithRouteFor

\* C3 as amended: the same, for every path that does not begin with the
\* base URL (dispatch does not strip the base URL; route_for does).
C3_DispatchLikeRouteForOffBase ==
    (op.name = "dispatch" /\ ~startswith(op.path, base_url)) => DispatchAgreesWithRouteFor

\* C3, its case: a dispatch of a path off the base URL that rules of two
\* handlers match, and a handler was invoked
C3_Witness ==
    /\ op.name = "dispatch"
    /\ ~startswith(op.path, base_url)
    /\ \E x, y \in Matching(op.path) : x[1] # y[1]
    /\ Len(calls) = 1
    /\ route_for(op.path) = Func(calls[1].func)

\* the rules registered for func, in registration order
RulesOf(func) == IF HasKey(rules, func) THEN Get(rules, func) ELSE <<>>

\* the rules of func, by position, that generate a path from the arguments
Generating(func, args, kwargs) ==
    {j \in 1..Len(RulesOf(func)) : make_path(RulesOf(func)[j], args, kwargs) # None}

FirstPath(func, args, kwargs) ==
    make_path(RulesOf(func)[Min(Generating(func, args, kwargs))], args, kwargs).v

\* C4 as stated: url_for returns the base URL followed by the path of the
\* first registered pattern of the handler that generates one, and raises a
\* routing error exactly when none does.
C4_BaseUrlThenFirstPath ==
    op.name = "url_for" =>
        IF Generating(op.func, op.args, op.kwargs) # {}
        THEN ret = Str(base_url \o FirstPath(op.func, op.args, op.kwargs))
        ELSE ret = RoutingError

\* C4 as amended: url_for returns the base URL followed by the path of the
\* first registered pattern of the handler that generates one, with a '/'
\* put between them when that path does not begin with '/'; it raises a
\* routing error exactly when no pattern of the handler generates a path.
C4_BaseUrlSlashFirstPath ==
    op.name = "url_for" =>
        IF Generating(op.func, op.args, op.kwargs) # {}
        THEN LET made == FirstPath(op.func, op.args, op.kwargs)
             IN  ret = Str(base_url
                           \o (IF made # <<>> /\ made[1] = "/" THEN <<>> ELSE <<"/">>)
                           \o made)
        ELSE ret = RoutingError

\* C4, its case: two patterns of the handler generate different paths and
\* the URL returned is that of the first
C4_Witness ==
    /\ op.name = "url_for"
    /\ ret.t = "str"
    /\ \E i, j \in Generating(op.func, op.args, op.kwargs) :
          /\ i < j
          /\ make_path(RulesOf(op.func)[i], op.args, op.kwargs)
               # make_path(RulesOf(op.func)[j], op.args, op.kwargs)

\* the number of rules in a table
RECURSIVE Count(_)
Count(table) == IF table = <<>> THEN 0 ELSE Len(Head(table)[2]) + Count(Tail(table))

IsPrefix(s, t) == Len(s) <= Len(t) /\ SubSeq(t, 1, Len(s)) = s

\* every function of old is at its place in new, its rules kept in order
\* at the front of its list
Preserved(old, new) ==
    /\ Len(old) <= Len(new)
    /\ \A i \in 1..Len(old) :
          new[i][1] = old[i][1] /\ IsPrefix(old[i][2], new[i][2])

\* C9: the route table changes only by add_route appending one compiled
\* pattern to the end of the named handler's list (a new list, at the end
\* of the table, on its first registration); route_for, url_for and
\* dispatch leave it unchanged whether they return or raise, and no entry
\* is ever removed or reordered.
C9_OnlyAddRouteAppends ==
    [][/\ Preserved(rules, rules')
       /\ op'.name # "add_route" => rules' = rules
       /\ (op'.name = "add_route" /\ ret' = re_error) => rules' = rules
       /\ (op'.name = "add_route" /\ ret' = None) =>
             /\ Count(rules') = Count(rules) + 1
             /\ HasKey(rules', op'.func)
             /\ LET l == Get(rules', op'.func)
                IN  l[Len(l)] = UrlRule(op'.pattern)
             /\ ~HasKey(rules, op'.func) => rules'[Len(rules')][1] = op'.func
      ]_vars

\* C9, its case: add_route appended to the list of a handler that is not
\* the last one of the table
C9_Witness ==
    /\ op.name = "add_route"
    /\ ret = None
    /\ Len(rules) >= 2
    /\ rules[1][1] = op.func
    /\ Len(rules[1][2]) >= 2

NonEmptyNoSlash(v) == v # <<>> /\ \A i \in 1..Len(v) : v[i] # "/"

\* C10 as stated: with H the only registered handler and keyword values
\* that are exactly the placeholders of one of its patterns, non-empty and
\* free of '/', route_for(url_for(H, kwargs)) is H.
C10_RouteForInvertsUrlFor ==
    (/\ op.name = "url_for"
     /\ ret.t = "str"
     /\ op.args = <<>>
     /\ Len(rules) = 1
     /\ rules[1][1] = op.func
     /\ \E j \in 1..Len(rules[1][2]) : Keys(op.kwargs) = Range(rules[1][2][j].keywords)
     /\ \A i \in 1..Len(op.kwargs) : NonEmptyNoSlash(op.kwargs[i][2]))
    => route_for(ret.v) = Func(op.func)

-----------------------------------------------------------------------------
(* One UrlRule as a state machine: a pattern is compiled, then the rule    *)
(* generates a path and matches it, or matches a path it is given.  A rule *)
(* does not change once built, so one call on it decides nothing about the *)
(* next and each behaviour makes one chain of calls.                       *)

\* the most pieces a pattern is put together from
MaxPatTokens == 3

\* the pieces of pattern text:
\*   /  x  :  <  >  <a>  <b>  <string:a>  <path:b>  <int:a>
PatTokens ==
    {<<"/">>,
     <<"x">>,
     <<":">>,
     <<"<">>,
     <<">">>,
     <<"<","a",">">>,
     <<"<","b",">">>,
     <<"<","s","t","r","i","n","g",":","a",">">>,
     <<"<","p","a","t","h",":","b",">">>,
     <<"<","i","n","t",":","a",">">>}

\* the patterns the specification gives as examples:
\*   /show/<id>  /videos/<path:rest>  /videos/<name>  /item/<id>/<variant>
ExamplePatterns ==
    {<<"/","s","h","o","w","/","<","i","d",">">>,
     <<"/","v","i","d","e","o","s","/","<","p","a","t","h",":","r","e","s","t",">">>,
     <<"/","v","i","d","e","o","s","/","<","n","a","m","e",">">>,
     <<"/","i","t","e","m","/","<","i","d",">","/","<","v","a","r","i","a","n","t",">">>}

Patterns ==
    {concat(ts) : ts \in UNION {[1..n -> PatTokens] : n \in 0..MaxPatTokens}}
    \cup ExamplePatterns

\* the values a placeholder is given:  v  vx  (empty)  u/v
Values == {<<"v">>, <<"v","x">>, <<>>, <<"u","/","v">>}

\* the keyword arguments given to make_path:
\*   {}  {a: v}  {b: w}  {a: v, b: w}  {a: vx, b: v}  {a: '', b: v}  {a: u/v}
\*   {a: v, q: w}  {q: u/v}  {q: w, r: 'a b'}  {a: v, b: w, q: w}
\*   {id: 42, sort: asc}  {id: 7}
RuleKwargs ==
    {<<>>,
     <<<<<<"a">>, <<"v">>>>>>,
     <<<<<<"b">>, <<"w">>>>>>,
     <<<<<<"a">>, <<"v">>>>, <<<<"b">>, <<"w">>>>>>,
     <<<<<<"a">>, <<"v","x">>>>, <<<<"b">>, <<"v">>>>>>,
     <<<<<<"a">>, <<>>>>, <<<<"b">>, <<"v">>>>>>,
     <<<<<<"a">>, <<"u","/","v">>>>>>,
     <<<<<<"a">>, <<"v">>>>, <<<<"q">>, <<"w">>>>>>,
     <<<<<<"q">>, <<"u","/","v">>>>>>,
     <<<<<<"q">>, <<"w">>>>, <<<<"r">>, <<"a"," ","b">>>>>>,
     <<<<<<"a">>, <<"v">>>>, <<<<"b">>, <<"w">>>>, <<<<"q">>, <<"w">>>>>>,
     <<<<<<"i","d">>, <<"4","2">>>>, <<<<"s","o","r","t">>, <<"a","s","c">>>>>>,
     <<<<<<"i","d">>, <<"7">>>>>>}

\* the arguments given to make_path, as <<args, kwargs>>: every RuleKwargs
\* alone, and  ('v')  ('v', 'w')  ('v', a=v)
RuleArguments ==
    {<<<<>>, kw>> : kw \in RuleKwargs}
    \cup {<<<<<<"v">>>>, <<>>>>, <<<<<<"v">>, <<"w">>>>, <<>>>>, <<<<<<"v">>>>, <<<<<<"a">>, <<"v">>>>>>>>}

\* the paths given to match as they are:  /videos/a/b/c  /v  (empty)
RulePaths == {<<"/","v","i","d","e","o","s","/","a","/","b","/","c">>,
              <<"/","v">>,
              <<>>}

RInit ==
    /\ rules = <<>>
    /\ registered = <<>>
    /\ op = Idle
    /\ ret = None
    /\ calls = <<>>
    /\ pat \in Patterns
    /\ rule = None
    /\ rop = Idle
    /\ rret = None

\* rule = UrlRule(pat)
Compile ==
    /\ rop.name = "init"
    /\ rule' = UrlRule(pat)
    /\ rop' = [name |-> "UrlRule"]
    /\ rret' = None
    /\ UNCHANGED <<pat, plugin_vars>>

\* rule.make_path(*args, **kwargs)
MakePath(args, kwargs) ==
    /\ rop.name = "UrlRule"
    /\ rule.t = "UrlRule"
    /\ rop' = [name |-> "make_path", args |-> args, kwargs |-> kwargs]
    /\ rret' = make_path(rule, args, kwargs)
    /\ UNCHANGED <<pat, rule, plugin_vars>>

\* rule.match(path) of the path make_path has just returned
MatchMade ==
    /\ rop.name = "make_path"
    /\ rret.t = "str"
    /\ rop' = [name |-> "match", path |-> rret.v, from |-> "make_path",
               args |-> rop.args, kwargs |-> rop.kwargs]
    /\ rret' = match(rule, rret.v)
    /\ UNCHANGED <<pat, rule, plugin_vars>>

\* the stripped pattern with the n-th placeholder of the matcher replaced
\* by the n-th value
RECURSIVE Substitute(_, _)
Substitute(regex, values) ==
    IF regex = <<>> THEN <<>>
    ELSE IF Head(regex).k = "lit"
         THEN Head(regex).v \o Substitute(Tail(regex), values)
         ELSE Head(values) \o Substitute(Tail(regex), Tail(values))

\* rule.match(path) of a path built by substituting values for the placeholders
MatchSubstituted(values) ==
    /\ rop.name = "UrlRule"
    /\ rule.t = "UrlRule"
    /\ rop' = [name |-> "match", path |-> Substitute(rule.regex, values),
               from |-> "substitution",
               values |-> [n \in 1..Len(values) |-> <<GroupNames(rule.regex)[n], values[n]>>]]
    /\ rret' = match(rule, Substitute(rule.regex, values))
    /\ UNCHANGED <<pat, rule, plugin_vars>>

\* rule.match(path) of a path of the host
MatchPath(p) ==
    /\ rop.name = "UrlRule"
    /\ rule.t = "UrlRule"
    /\ rop' = [name |-> "match", path |-> p, from |-> "host"]
    /\ rret' = match(rule, p)
    /\ UNCHANGED <<pat, rule, plugin_vars>>

RNext ==
    \/ Compile
    \/ \E a \in RuleArguments : MakePath(a[1], a[2])
    \/ MatchMade
    \/ /\ rule.t = "UrlRule"
       /\ \E values \in [1..Len(GroupNames(rule.regex)) -> Values] : MatchSubstituted(values)
    \/ \E p \in RulePaths : MatchPath(p)

SpecRule == RInit /\ [][RNext]_vars

-----------------------------------------------------------------------------
(* Properties of one rule                                                  *)

NoSlash(v) == \A i \in 1..Len(v) : v[i] # "/"

\* the names of the segment placeholders of the matcher
SegmentNames(regex) ==
    {regex[i].v : i \in {n \in 1..Len(regex) : regex[n].k = "seg"}}

\* C5 as stated: for keyword values that cover every placeholder (those of
\* segment placeholders free of '/'), match on the path make_path generated
\* succeeds and returns the original value of every placeholder.
C5_RoundTrip ==
    (/\ rop.name = "match"
     /\ rop.from = "make_path"
     /\ rop.args = <<>>
     /\ Range(rule.keywords) \subseteq Keys(rop.kwargs)
     /\ \A i \in 1..Len(rop.kwargs) :
           rop.kwargs[i][1] \in SegmentNames(rule.regex) => NoSlash(rop.kwargs[i][2]))
    => /\ rret.t = "dict"
       /\ \A n \in Range(rule.keywords) :
             HasKey(rret.v, n) /\ Get(rret.v, n) = Get(rop.kwargs, n)

\* between any two placeholders of the matcher that follow each other
\* stands literal text with a '/' in it
SlashSeparated(regex) ==
    \A i, j \in 1..Len(regex) :
        (/\ i < j
         /\ regex[i].k # "lit"
         /\ regex[j].k # "lit"
         /\ \A m \in (i + 1)..(j - 1) : regex[m].k = "lit")
        => \E m \in (i + 1)..(j - 1) : regex[m].v = <<"/">>

RECURSIVE Filled(_, _)
Filled(tmpl, kwargs) ==
    IF tmpl = <<>> THEN <<>>
    ELSE (IF Head(tmpl).k = "slot" THEN Get(kwargs, Head(tmpl).v) ELSE Head(tmpl).v)
         \o Filled(Tail(tmpl), kwargs)

\* the key=value pairs, form-encoded, of the keywords that name no placeholder
RECURSIVE Remaining(_, _)
Remaining(kwargs, names) ==
    IF kwargs = <<>> THEN <<>>
    ELSE IF Head(kwargs)[1] \in names THEN Remaining(Tail(kwargs), names)
    ELSE LET rest == Remaining(Tail(kwargs), names)
         IN  quote_plus(Head(kwargs)[1]) \o <<"=">> \o quote_plus(Head(kwargs)[2])
             \o (IF rest = <<>> THEN <<>> ELSE <<"&">> \o rest)

\* C7: in keyword mode make_path returns None exactly when a placeholder
\* is missing from the keywords; otherwise it returns the template filled
\* with the values of the keywords that name a placeholder, followed by '?'
\* and the form-encoded remaining pairs exactly when a keyword names no
\* placeholder.  /show/<id> with {id: 42, sort: asc} gives /show/42?sort=asc.
C7_KeywordMode ==
    (rop.name = "make_path" /\ rop.args = <<>>) =>
        LET names == Range(rule.keywords)
            extra == \E i \in 1..Len(rop.kwargs) : rop.kwargs[i][1] \notin names
        IN  /\ rret = None <=> \E n \in names : n \notin Keys(rop.kwargs)
            /\ rret # None =>
                  rret = Str(Filled(rule.pattern, rop.kwargs)
                             \o (IF extra
                                 THEN <<"?">> \o Remaining(rop.kwargs, names)
                                 ELSE <<>>))
            /\ (/\ pat = <<"/","s","h","o","w","/","<","i","d",">">>
                /\ rop.kwargs = <<<<<<"i","d">>, <<"4","2">>>>, <<<<"s","o","r","t">>, <<"a","s","c">>>>>>)
               => rret = Str(<<"/","s","h","o","w","/","4","2","?","s","o","r","t","=","a","s","c">>)
            /\ (pat = <<"x">> /\ rop.kwargs = <<<<<<"q">>, <<"w">>>>, <<<<"r">>, <<"a"," ","b">>>>>>)
               => rret = Str(<<"x","?","q","=","w","&","r","=","a","+","b">>)

\* C7, its case: the example of the specification
C7_Witness ==
    /\ rop.name = "make_path"
    /\ rop.args = <<>>
    /\ pat = <<"/","s","h","o","w","/","<","i","d",">">>
    /\ rop.kwargs = <<<<<<"i","d">>, <<"4","2">>>>, <<<<"s","o","r","t">>, <<"a","s","c">>>>>>
    /\ rret.t = "str"

\* C8 as stated: the names of the matcher's groups, of the template's slots
\* and of the recorded placeholder sequence are the same set, for every
\* pattern that compiles.
C8_SameNames ==
    rule.t = "UrlRule" =>
        /\ Range(GroupNames(rule.regex)) = Range(SlotNames(rule.pattern))
        /\ Range(SlotNames(rule.pattern)) = Range(rule.keywords)

====
